---- MODULE Spec2Model ----
(***************************************************************************)
(* Model of multigpu.py: main parses the arguments and spawns one worker   *)
(* (run) per entry of --gpu; every worker initialises the process group,   *)
(* builds and wraps the model, trains, runs layer-wise inference and       *)
(* destroys the process group.                                             *)
(*                                                                         *)
(* Collectives (init_process_group's rendezvous, DDP's parameter broadcast *)
(* and gradient all-reduce, dist.reduce, dist.barrier) are blocking: a     *)
(* worker joins and waits, and the collective completes when every rank of *)
(* the group waits in a collective of the same kind.                       *)
(*                                                                         *)
(* Tensor values are kept by provenance: a parameter vector is the rank    *)
(* whose initial values it holds followed by the gradient contributions of *)
(* every optimizer step; an accuracy is the sequence of its addends        *)
(* (measuring rank, epoch, divisor).  Floating-point rounding is not       *)
(* represented.                                                            *)
(***************************************************************************)
EXTENDS Integers, Sequences, FiniteSets, TLC

\* ---------------------------------------------------------------- bounds
MaxGpus == 2        \* longest --gpu list
MaxEpochs == 2      \* largest --num_epochs
MaxBatches == 1     \* most batches a data loader yields per epoch
NumNodes == 3       \* nodes of the graph
InSize == 3         \* feature width of the dataset
NumClasses == 4     \* number of classes of the dataset
batch_size == 1     \* layerwise_infer's batch_size, scaled to the graph

\* ------------------------------------------------------ program constants
hidden_dim == 32

Modes == {"mixed", "puregpu", "benchmark"}

\* --gpu lists: ascending, descending and repeated ids, of every length.
GpuLists ==
    UNION { { [i \in 1..n |-> i - 1], [i \in 1..n |-> n - i], [i \in 1..n |-> 0] }
            : n \in 1..MaxGpus }

\* --model / --head pairs: the two models, an unknown name, and head lists
\* ending and not ending in 1 (<<0>> is the default --head "0").
ModelArgs ==
    { <<"sage", <<0>>>>, <<"gat", <<0>>>>, <<"gat", <<1, 2>>>>,
      <<"gat", <<1>>>>, <<"gat", <<2, 1>>>>, <<"graphsage", <<0>>>> }

VARIABLES
    args,       \* the parsed arguments
    devices,    \* list(map(int, args.gpu.split(",")))
    nbatch,     \* batches the training loader of each worker yields per epoch
    nval,       \* batches the validation loader of each worker yields
    mainpc,     \* position of main
    pc,         \* position of each worker
    failedAt,   \* where a failed worker raised
    device,     \* run's device
    group,      \* process group membership of each worker: rank and world size
    gLoc,       \* where train's graph g lives
    idxLoc,     \* where train_idx / val_idx live
    inferLoc,   \* where layerwise_infer's graph lives
    use_uva,
    fused,      \* NeighborSampler's fused flag
    layers,     \* the layers of the worker's model (<<>>: no model bound)
    ddp,        \* the model is wrapped in DistributedDataParallel
    params,     \* parameters of the worker's replica
    grad,       \* gradient held by the replica
    epoch,
    it,         \* train's loop variable `it` (-1: unbound)
    b,          \* batches of the current loop already taken
    acc,        \* train's acc tensor
    redwhat,    \* the tensor a worker passed to its pending dist.reduce
    log_path,   \* train's and run's log_path of each worker
    logfile,    \* lines appended to the log files
    l,          \* inference: current layer (1-based)
    todo,       \* inference: output rows of the current loader not yet written
    y,          \* the shared output tensors: rows written, per layer
    h,          \* g.ndata["h"] of each worker: 0 features, l the y of layer l
    pred,       \* rows read by pred[nid]
    hist        \* operations each worker has executed, in order

vars == << args, devices, nbatch, nval, mainpc, pc, failedAt, device, group,
           gLoc, idxLoc, inferLoc, use_uva, fused, layers, ddp, params, grad,
           epoch, it, b, acc, redwhat, log_path, logfile, l, todo, y, h, pred,
           hist >>

nprocs == Len(devices)
Procs == 0 .. nprocs - 1
Nodes == 0 .. NumNodes - 1

\* Batches per epoch of each worker's training loader: DGL's use_ddp split
\* (drop_last=False) pads the indices, so every rank gets the same count.
BatchProfiles(n) == { [w \in 0 .. n - 1 |-> k] : k \in 0 .. MaxBatches }

\* Loaders that do not give every rank the same count.
UnevenProfiles(n) ==
    { [w \in 0 .. n - 1 |-> IF w = 0 THEN 1 ELSE 0],
      [w \in 0 .. n - 1 |-> IF w = 0 THEN 0 ELSE 1] }

CPU == <<"cpu", -1>>
Cuda(d) == <<"cuda", d>>

\* An executed operation, with the epoch (or inference layer) it belongs to.
Ev(op, n) == [op |-> op, n |-> n]
Did(w, op, n) == [hist EXCEPT ![w] = Append(@, Ev(op, n))]

\* ------------------------------------------------------------------ main
ParsedArgs(modes) ==
    { [mode |-> m, model |-> ma[1], head |-> ma[2], num_epochs |-> ne,
       dataset_name |-> "ogbn-products", hidden_dim |-> hidden_dim]
      : m \in modes, ma \in ModelArgs, ne \in 0 .. MaxEpochs }

\* The state when mp.spawn is called.
InitRun ==
    /\ mainpc = "spawn"
    /\ pc = [w \in Procs |-> "unstarted"]
    /\ failedAt = [w \in Procs |-> "none"]
    /\ device = [w \in Procs |-> -1]
    /\ group = [w \in Procs |-> [rank |-> -1, world_size |-> 0]]
    /\ gLoc = [w \in Procs |-> CPU]
    /\ idxLoc = [w \in Procs |-> CPU]
    /\ inferLoc = [w \in Procs |-> CPU]
    /\ use_uva = [w \in Procs |-> FALSE]
    /\ fused = [w \in Procs |-> FALSE]
    /\ layers = [w \in Procs |-> <<>>]
    /\ ddp = [w \in Procs |-> FALSE]
    /\ params = [w \in Procs |-> <<>>]
    /\ grad = [w \in Procs |-> {}]
    /\ epoch = [w \in Procs |-> 0]
    /\ it = [w \in Procs |-> -1]
    /\ b = [w \in Procs |-> 0]
    /\ acc = [w \in Procs |-> <<>>]
    /\ redwhat = [w \in Procs |-> "none"]
    /\ log_path = [w \in Procs |-> [train |-> <<>>, run |-> <<>>]]
    /\ logfile = <<>>
    /\ l = [w \in Procs |-> 0]
    /\ todo = [w \in Procs |-> <<>>]
    /\ y = <<>>
    /\ h = [w \in Procs |-> 0]
    /\ pred = [w \in Procs |-> {}]
    /\ hist = [w \in Procs |-> <<>>]

Init ==
    /\ args \in ParsedArgs(Modes)
    /\ devices \in GpuLists
    /\ nbatch \in BatchProfiles(Len(devices))
    /\ nval \in 0 .. MaxBatches
    /\ InitRun

\* mp.spawn starts process i with run(i, nprocs, devices, g, args), i = 0 .. nprocs-1.
Spawn(i) ==
    /\ mainpc = "spawn"
    /\ i \in Procs
    /\ pc[i] = "unstarted"
    /\ \A j \in 0 .. i - 1 : pc[j] # "unstarted"
    /\ pc' = [pc EXCEPT ![i] = "run"]
    /\ mainpc' = IF i = nprocs - 1 THEN "join" ELSE "spawn"
    /\ UNCHANGED << args, devices, nbatch, nval, failedAt, device, group, gLoc,
                    idxLoc, inferLoc, use_uva, fused, layers, ddp, params, grad,
                    epoch, it, b, acc, redwhat, log_path, logfile, l, todo, y,
                    h, pred, hist >>

Ended(w) == pc[w] \in {"done", "failed", "terminated"}

\* mp.spawn's join: every worker returned.
JoinExit ==
    /\ mainpc = "join"
    /\ \A w \in Procs : pc[w] = "done"
    /\ mainpc' = "exit"
    /\ UNCHANGED << args, devices, nbatch, nval, pc, failedAt, device, group,
                    gLoc, idxLoc, inferLoc, use_uva, fused, layers, ddp, params,
                    grad, epoch, it, b, acc, redwhat, log_path, logfile, l,
                    todo, y, h, pred, hist >>

\* mp.spawn's join: a worker raised; the others are terminated and main raises.
JoinError ==
    /\ mainpc = "join"
    /\ \E w \in Procs : pc[w] = "failed"
    /\ pc' = [w \in Procs |-> IF Ended(w) THEN pc[w] ELSE "terminated"]
    /\ mainpc' = "error"
    /\ UNCHANGED << args, devices, nbatch, nval, failedAt, device, group, gLoc,
                    idxLoc, inferLoc, use_uva, fused, layers, ddp, params, grad,
                    epoch, it, b, acc, redwhat, log_path, logfile, l, todo, y,
                    h, pred, hist >>

\* ------------------------------------------------------------ collectives
Waiting(kind) == { w \in Procs : pc[w] = kind }
Ready(kind) == Waiting(kind) = Procs

\* ------------------------------------------------------------------- run
\* run, lines 336-359: bind the device and enter init_process_group.
RunInit(w) ==
    /\ pc[w] = "run"
    /\ device' = [device EXCEPT ![w] = devices[w + 1]]
    /\ pc' = [pc EXCEPT ![w] = "wait_init"]
    /\ UNCHANGED << args, devices, nbatch, nval, mainpc, failedAt, group, gLoc,
                    idxLoc, inferLoc, use_uva, fused, layers, ddp, params, grad,
                    epoch, it, b, acc, redwhat, log_path, logfile, l, todo, y,
                    h, pred, hist >>

\* init_process_group returns once all world_size ranks have joined the store.
InitProcessGroup ==
    /\ Ready("wait_init")
    /\ group' = [w \in Procs |-> [rank |-> w, world_size |-> nprocs]]
    /\ hist' = [w \in Procs |-> Append(hist[w], Ev("init_process_group", 0))]
    /\ pc' = [w \in Procs |-> "unpack"]
    /\ UNCHANGED << args, devices, nbatch, nval, mainpc, failedAt, device, gLoc,
                    idxLoc, inferLoc, use_uva, fused, layers, ddp, params, grad,
                    epoch, it, b, acc, redwhat, log_path, logfile, l, todo, y,
                    h, pred >>

\* run, lines 364-367: placement of the indices and of the graph.
TrainGraphLoc(mode, dev) ==
    IF mode # "benchmark"
    THEN (IF mode = "puregpu" THEN Cuda(dev) ELSE CPU)
    ELSE CPU

TrainIdxLoc(mode, dev) == IF mode # "benchmark" THEN Cuda(dev) ELSE CPU

RunUnpack(w) ==
    /\ pc[w] = "unpack"
    /\ idxLoc' = [idxLoc EXCEPT ![w] = TrainIdxLoc(args.mode, device[w])]
    /\ gLoc' = [gLoc EXCEPT ![w] = TrainGraphLoc(args.mode, device[w])]
    /\ pc' = [pc EXCEPT ![w] = "model"]
    /\ UNCHANGED << args, devices, nbatch, nval, mainpc, failedAt, device, group,
                    inferLoc, use_uva, fused, layers, ddp, params, grad, epoch,
                    it, b, acc, redwhat, log_path, logfile, l, todo, y, h, pred,
                    hist >>

num_classes == IF args.dataset_name = "ogb-paper100M" THEN 172 ELSE NumClasses

\* SAGE.__init__: three SAGEConv layers.
SAGE(in_size, hid_size, out_size) ==
    << [conv |-> "SAGEConv", in_dim |-> in_size, out_dim |-> hid_size, heads |-> 1],
       [conv |-> "SAGEConv", in_dim |-> hid_size, out_dim |-> hid_size, heads |-> 1],
       [conv |-> "SAGEConv", in_dim |-> hid_size, out_dim |-> out_size, heads |-> 1] >>

\* Mutant of GATAssert: the assertion is missing.
GATAssertNone(n_heads) == Len(n_heads) >= 0

\* GAT.__init__'s assertion; n_heads[-1] is the last entry.
GATAssert(n_heads) == n_heads[Len(n_heads)] = 1

\* GAT.__init__, layer i (0-based as in the source).
GATInDim(i, in_size, hid_size, n_heads) ==
    IF i = 0 THEN in_size ELSE hid_size * n_heads[i]

GATOutDim(i, hid_size, out_size, n_heads) ==
    IF i = Len(n_heads) - 1 THEN out_size ELSE hid_size

GAT(in_size, hid_size, out_size, n_heads) ==
    [i \in 1 .. Len(n_heads) |->
        [conv |-> "GATConv",
         in_dim |-> GATInDim(i - 1, in_size, hid_size, n_heads),
         out_dim |-> GATOutDim(i - 1, hid_size, out_size, n_heads),
         heads |-> n_heads[i]]]

\* GAT.forward: width of h after layer i (0-based): mean over the heads after
\* the last layer, flatten otherwise.
GATForwardWidth(ls, i) ==
    IF i = Len(ls) - 1 THEN ls[i + 1].out_dim
    ELSE ls[i + 1].heads * ls[i + 1].out_dim

\* run, lines 372-375.
RunModelSage(w) ==
    /\ pc[w] = "model"
    /\ args.model = "sage"
    /\ layers' = [layers EXCEPT ![w] = SAGE(InSize, args.hidden_dim, num_classes)]
    /\ params' = [params EXCEPT ![w] = << [init |-> w] >>]
    /\ pc' = [pc EXCEPT ![w] = "ddp"]
    /\ UNCHANGED << args, devices, nbatch, nval, mainpc, failedAt, device, group,
                    gLoc, idxLoc, inferLoc, use_uva, fused, ddp, grad, epoch,
                    it, b, acc, redwhat, log_path, logfile, l, todo, y, h, pred,
                    hist >>

RunModelGat(w) ==
    /\ pc[w] = "model"
    /\ args.model # "sage"
    /\ args.model = "gat"
    /\ GATAssert(args.head)
    /\ layers' = [layers EXCEPT ![w] =
                     GAT(InSize, args.hidden_dim, num_classes, args.head)]
    /\ params' = [params EXCEPT ![w] = << [init |-> w] >>]
    /\ pc' = [pc EXCEPT ![w] = "ddp"]
    /\ UNCHANGED << args, devices, nbatch, nval, mainpc, failedAt, device, group,
                    gLoc, idxLoc, inferLoc, use_uva, fused, ddp, grad, epoch,
                    it, b, acc, redwhat, log_path, logfile, l, todo, y, h, pred,
                    hist >>

\* GAT.__init__ raises AssertionError before any layer is created.
RunModelGatAssertFails(w) ==
    /\ pc[w] = "model"
    /\ args.model # "sage"
    /\ args.model = "gat"
    /\ ~GATAssert(args.head)
    /\ pc' = [pc EXCEPT ![w] = "failed"]
    /\ failedAt' = [failedAt EXCEPT ![w] = "GAT.__init__"]
    /\ UNCHANGED << args, devices, nbatch, nval, mainpc, device, group, gLoc,
                    idxLoc, inferLoc, use_uva, fused, layers, ddp, params, grad,
                    epoch, it, b, acc, redwhat, log_path, logfile, l, todo, y,
                    h, pred, hist >>

\* Mutant of RunModelNone: an else branch builds SAGE for any other name.
RunModelDefault(w) ==
    /\ pc[w] = "model"
    /\ args.model # "sage"
    /\ args.model # "gat"
    /\ layers' = [layers EXCEPT ![w] = SAGE(InSize, args.hidden_dim, num_classes)]
    /\ params' = [params EXCEPT ![w] = << [init |-> w] >>]
    /\ pc' = [pc EXCEPT ![w] = "ddp"]
    /\ UNCHANGED << args, devices, nbatch, nval, mainpc, failedAt, device, group,
                    gLoc, idxLoc, inferLoc, use_uva, fused, ddp, grad, epoch,
                    it, b, acc, redwhat, log_path, logfile, l, todo, y, h, pred,
                    hist >>

\* Neither branch of the if/elif is taken: `model` stays unbound.
RunModelNone(w) ==
    /\ pc[w] = "model"
    /\ args.model # "sage"
    /\ args.model # "gat"
    /\ pc' = [pc EXCEPT ![w] = "ddp"]
    /\ UNCHANGED << args, devices, nbatch, nval, mainpc, failedAt, device, group,
                    gLoc, idxLoc, inferLoc, use_uva, fused, layers, ddp, params,
                    grad, epoch, it, b, acc, redwhat, log_path, logfile, l,
                    todo, y, h, pred, hist >>

\* run, lines 376-378: DistributedDataParallel(model, ...).  Reading the unbound
\* `model` raises before the wrapper is built; otherwise the constructor joins
\* the broadcast of rank 0's parameters.
RunDDPUnbound(w) ==
    /\ pc[w] = "ddp"
    /\ layers[w] = <<>>
    /\ pc' = [pc EXCEPT ![w] = "failed"]
    /\ failedAt' = [failedAt EXCEPT ![w] = "DistributedDataParallel"]
    /\ UNCHANGED << args, devices, nbatch, nval, mainpc, device, group, gLoc,
                    idxLoc, inferLoc, use_uva, fused, layers, ddp, params, grad,
                    epoch, it, b, acc, redwhat, log_path, logfile, l, todo, y,
                    h, pred, hist >>

RunDDP(w) ==
    /\ pc[w] = "ddp"
    /\ layers[w] # <<>>
    /\ hist' = Did(w, "broadcast", 0)
    /\ pc' = [pc EXCEPT ![w] = "wait_broadcast"]
    /\ UNCHANGED << args, devices, nbatch, nval, mainpc, failedAt, device, group,
                    gLoc, idxLoc, inferLoc, use_uva, fused, layers, ddp, params,
                    grad, epoch, it, b, acc, redwhat, log_path, logfile, l,
                    todo, y, h, pred >>

\* The broadcast completes: every replica takes rank 0's parameters.
DDPBroadcast ==
    /\ Ready("wait_broadcast")
    /\ params' = [w \in Procs |-> params[0]]
    /\ ddp' = [w \in Procs |-> TRUE]
    /\ pc' = [w \in Procs |-> "train"]
    /\ UNCHANGED << args, devices, nbatch, nval, mainpc, failedAt, device, group,
                    gLoc, idxLoc, inferLoc, use_uva, fused, layers, grad, epoch,
                    it, b, acc, redwhat, log_path, logfile, l, todo, y, h, pred,
                    hist >>

\* ----------------------------------------------------------------- train
\* The f-string of train, line 265.
TrainLogPath(dataset_name, n, model) ==
    << "../logs/2023_12_28_t4_dgl_", dataset_name, "_1x", n, "_", model, ".log" >>

\* The f-string of run, line 397.
RunLogPath(dataset_name, n, model) ==
    << "../logs/2023_12_28_t4_dgl_", dataset_name, "_1x", n, "_", model, ".log" >>

\* Mutant of UseUva: UVA whenever the graph is not on the GPU.
UseUvaNotPureGpu(mode) == mode # "puregpu"

\* run, line 381.
UseUva(mode) == mode = "mixed"

\* train, line 271.
Fused(mode) == mode # "benchmark"

\* Mutant of IsLogger: every worker logs.
IsLoggerAny(proc_id) == proc_id >= 0

\* The guard of the rank-0 branches of train and layerwise_infer.
IsLogger(proc_id) == proc_id = 0

\* run line 381 and train lines 265-298: use_uva, the log path, the sampler,
\* the loaders and the optimizer.
TrainSetup(w) ==
    /\ pc[w] = "train"
    /\ use_uva' = [use_uva EXCEPT ![w] = UseUva(args.mode)]
    /\ fused' = [fused EXCEPT ![w] = Fused(args.mode)]
    /\ log_path' = [log_path EXCEPT ![w].train =
                       TrainLogPath(args.dataset_name, nprocs, args.model)]
    /\ epoch' = [epoch EXCEPT ![w] = 0]
    /\ hist' = Did(w, "train", 0)
    /\ pc' = [pc EXCEPT ![w] = "epoch"]
    /\ UNCHANGED << args, devices, nbatch, nval, mainpc, failedAt, device, group,
                    gLoc, idxLoc, inferLoc, layers, ddp, params, grad, it, b,
                    acc, redwhat, logfile, l, todo, y, h, pred >>

\* for epoch in range(args.num_epochs): the next epoch starts.
EpochStart(w) ==
    /\ pc[w] = "epoch"
    /\ epoch[w] < args.num_epochs
    /\ b' = [b EXCEPT ![w] = 0]
    /\ pc' = [pc EXCEPT ![w] = "batch"]
    /\ UNCHANGED << args, devices, nbatch, nval, mainpc, failedAt, device, group,
                    gLoc, idxLoc, inferLoc, use_uva, fused, layers, ddp, params,
                    grad, epoch, it, acc, redwhat, log_path, logfile, l, todo,
                    y, h, pred, hist >>

\* Mutant of TrainBatch: the forward pass bypasses the DDP wrapper, so backward
\* leaves the gradient local.
TrainBatchLocal(w) ==
    /\ pc[w] = "batch"
    /\ b[w] < nbatch[w]
    /\ it' = [it EXCEPT ![w] = b[w]]
    /\ grad' = [grad EXCEPT ![w] = {w}]
    /\ hist' = Did(w, "backward", epoch[w])
    /\ pc' = [pc EXCEPT ![w] = "step"]
    /\ UNCHANGED << args, devices, nbatch, nval, mainpc, failedAt, device, group,
                    gLoc, idxLoc, inferLoc, use_uva, fused, layers, ddp, params,
                    epoch, b, acc, redwhat, log_path, logfile, l, todo, y, h,
                    pred >>

\* train, lines 303-310: forward, loss, zero_grad and backward on the worker's
\* own batch.  With the model wrapped, backward joins the gradient all-reduce;
\* an unwrapped model's backward is local.
TrainBatch(w) ==
    /\ pc[w] = "batch"
    /\ b[w] < nbatch[w]
    /\ it' = [it EXCEPT ![w] = b[w]]
    /\ grad' = [grad EXCEPT ![w] = {w}]
    /\ hist' = Did(w, "backward", epoch[w])
    /\ pc' = [pc EXCEPT ![w] = IF ddp[w] THEN "wait_allreduce" ELSE "step"]
    /\ UNCHANGED << args, devices, nbatch, nval, mainpc, failedAt, device, group,
                    gLoc, idxLoc, inferLoc, use_uva, fused, layers, ddp, params,
                    epoch, b, acc, redwhat, log_path, logfile, l, todo, y, h,
                    pred >>

\* The all-reduce completes: every replica holds the combined gradient.
AllReduce ==
    /\ Ready("wait_allreduce")
    /\ grad' = [w \in Procs |-> UNION { grad[v] : v \in Procs }]
    /\ pc' = [w \in Procs |-> "step"]
    /\ UNCHANGED << args, devices, nbatch, nval, mainpc, failedAt, device, group,
                    gLoc, idxLoc, inferLoc, use_uva, fused, layers, ddp, params,
                    epoch, it, b, acc, redwhat, log_path, logfile, l, todo, y,
                    h, pred, hist >>

\* train, line 311: opt.step().
OptStep(w) ==
    /\ pc[w] = "step"
    /\ params' = [params EXCEPT ![w] = Append(@, [step |-> grad[w]])]
    /\ b' = [b EXCEPT ![w] = @ + 1]
    /\ pc' = [pc EXCEPT ![w] = "batch"]
    /\ UNCHANGED << args, devices, nbatch, nval, mainpc, failedAt, device, group,
                    gLoc, idxLoc, inferLoc, use_uva, fused, layers, ddp, grad,
                    epoch, it, acc, redwhat, log_path, logfile, l, todo, y, h,
                    pred, hist >>

\* Mutant of EvalStart: the validation pass sits inside the batch loop.
EvalStartEarly(w) ==
    /\ pc[w] = "batch"
    /\ b' = [b EXCEPT ![w] = 0]
    /\ hist' = Did(w, "evaluate", epoch[w])
    /\ pc' = [pc EXCEPT ![w] = "eval"]
    /\ UNCHANGED << args, devices, nbatch, nval, mainpc, failedAt, device, group,
                    gLoc, idxLoc, inferLoc, use_uva, fused, layers, ddp, params,
                    grad, epoch, it, acc, redwhat, log_path, logfile, l, todo,
                    y, h, pred >>

\* The training loader is exhausted: evaluate starts.
EvalStart(w) ==
    /\ pc[w] = "batch"
    /\ b[w] >= nbatch[w]
    /\ b' = [b EXCEPT ![w] = 0]
    /\ hist' = Did(w, "evaluate", epoch[w])
    /\ pc' = [pc EXCEPT ![w] = "eval"]
    /\ UNCHANGED << args, devices, nbatch, nval, mainpc, failedAt, device, group,
                    gLoc, idxLoc, inferLoc, use_uva, fused, layers, ddp, params,
                    grad, epoch, it, acc, redwhat, log_path, logfile, l, todo,
                    y, h, pred >>

\* evaluate, lines 213-218: one validation batch.
EvalBatch(w) ==
    /\ pc[w] = "eval"
    /\ b[w] < nval
    /\ b' = [b EXCEPT ![w] = @ + 1]
    /\ UNCHANGED << args, devices, nbatch, nval, mainpc, pc, failedAt, device,
                    group, gLoc, idxLoc, inferLoc, use_uva, fused, layers, ddp,
                    params, grad, epoch, it, acc, redwhat, log_path, logfile, l,
                    todo, y, h, pred, hist >>

\* evaluate, lines 219-224: torch.cat of an empty list raises.
EvalEmpty(w) ==
    /\ pc[w] = "eval"
    /\ b[w] >= nval
    /\ nval = 0
    /\ pc' = [pc EXCEPT ![w] = "failed"]
    /\ failedAt' = [failedAt EXCEPT ![w] = "evaluate"]
    /\ UNCHANGED << args, devices, nbatch, nval, mainpc, device, group, gLoc,
                    idxLoc, inferLoc, use_uva, fused, layers, ddp, params, grad,
                    epoch, it, b, acc, redwhat, log_path, logfile, l, todo, y,
                    h, pred, hist >>

\* The accuracy a worker measured on its share of the validation set in an
\* epoch, as one addend.
Measured(w, e) == << [proc |-> w, epoch |-> e, div |-> 1] >>

\* Mutant of Divide: the accuracy is not divided.
DivideNone(a, n) == a

\* train, line 314: acc / nprocs.
Divide(a, n) == [i \in 1 .. Len(a) |-> [a[i] EXCEPT !.div = @ * n]]

\* train, lines 313-317: the accuracy of the epoch, divided by nprocs, enters
\* dist.reduce(tensor=acc, dst=0).
EvalReduce(w) ==
    /\ pc[w] = "eval"
    /\ b[w] >= nval
    /\ nval > 0
    /\ acc' = [acc EXCEPT ![w] = Divide(Measured(w, epoch[w]), nprocs)]
    /\ redwhat' = [redwhat EXCEPT ![w] = "acc"]
    /\ hist' = Did(w, "reduce", epoch[w])
    /\ pc' = [pc EXCEPT ![w] = "wait_reduce"]
    /\ UNCHANGED << args, devices, nbatch, nval, mainpc, failedAt, device, group,
                    gLoc, idxLoc, inferLoc, use_uva, fused, layers, ddp, params,
                    grad, epoch, it, b, log_path, logfile, l, todo, y, h, pred >>

RECURSIVE SumTo(_, _)
\* The sum of the tensors of ranks 0 .. r, addend by addend.
SumTo(t, r) == IF r < 0 THEN <<>> ELSE SumTo(t, r - 1) \o t[r]

\* dist.reduce(dst=0) completes: rank 0's tensor holds the sum over all ranks.
Reduce ==
    /\ Ready("wait_reduce")
    /\ acc' = [acc EXCEPT ![0] =
                  IF redwhat[0] = "acc" THEN SumTo(acc, nprocs - 1) ELSE @]
    /\ pc' = [w \in Procs |-> IF redwhat[w] = "acc" THEN "log" ELSE "avglog"]
    /\ UNCHANGED << args, devices, nbatch, nval, mainpc, failedAt, device, group,
                    gLoc, idxLoc, inferLoc, use_uva, fused, layers, ddp, params,
                    grad, epoch, it, b, redwhat, log_path, logfile, l, todo, y,
                    h, pred, hist >>

Line(kind, e, a, by, path) ==
    [kind |-> kind, epoch |-> e, acc |-> a, by |-> by, path |-> path]

\* train, lines 318-324: rank 0 prints and appends the Epoch line.  The line
\* reads `it`, which is unbound when the training loader yielded no batch.
EpochLogUnbound(w) ==
    /\ pc[w] = "log"
    /\ IsLogger(w)
    /\ it[w] = -1
    /\ pc' = [pc EXCEPT ![w] = "failed"]
    /\ failedAt' = [failedAt EXCEPT ![w] = "train"]
    /\ UNCHANGED << args, devices, nbatch, nval, mainpc, device, group, gLoc,
                    idxLoc, inferLoc, use_uva, fused, layers, ddp, params, grad,
                    epoch, it, b, acc, redwhat, log_path, logfile, l, todo, y,
                    h, pred, hist >>

EpochLog(w) ==
    /\ pc[w] = "log"
    /\ IsLogger(w) => it[w] # -1
    /\ logfile' = IF IsLogger(w)
                  THEN Append(logfile, Line("Epoch", epoch[w], acc[w], w,
                                            log_path[w].train))
                  ELSE logfile
    /\ epoch' = [epoch EXCEPT ![w] = @ + 1]
    /\ pc' = [pc EXCEPT ![w] = "epoch"]
    /\ UNCHANGED << args, devices, nbatch, nval, mainpc, failedAt, device, group,
                    gLoc, idxLoc, inferLoc, use_uva, fused, layers, ddp, params,
                    grad, it, b, acc, redwhat, log_path, l, todo, y, h, pred,
                    hist >>

\* Mutant of TrainEnd: the reduce of the epoch time sits in the rank-0 branch.
TrainEndRankZero(w) ==
    /\ pc[w] = "epoch"
    /\ epoch[w] >= args.num_epochs
    /\ redwhat' = [redwhat EXCEPT ![w] = "time"]
    /\ hist' = IF IsLogger(w) THEN Did(w, "reduce_time", epoch[w]) ELSE hist
    /\ pc' = [pc EXCEPT ![w] = IF IsLogger(w) THEN "wait_reduce" ELSE "avglog"]
    /\ UNCHANGED << args, devices, nbatch, nval, mainpc, failedAt, device, group,
                    gLoc, idxLoc, inferLoc, use_uva, fused, layers, ddp, params,
                    grad, epoch, it, b, acc, log_path, logfile, l, todo, y, h,
                    pred >>

\* train, lines 325-326: the loop is over; the epoch time enters dist.reduce.
TrainEnd(w) ==
    /\ pc[w] = "epoch"
    /\ epoch[w] >= args.num_epochs
    /\ redwhat' = [redwhat EXCEPT ![w] = "time"]
    /\ hist' = Did(w, "reduce_time", epoch[w])
    /\ pc' = [pc EXCEPT ![w] = "wait_reduce"]
    /\ UNCHANGED << args, devices, nbatch, nval, mainpc, failedAt, device, group,
                    gLoc, idxLoc, inferLoc, use_uva, fused, layers, ddp, params,
                    grad, epoch, it, b, acc, log_path, logfile, l, todo, y, h,
                    pred >>

\* train, lines 327-331, and run, line 397: rank 0 appends the average epoch
\* time; train returns and run builds its log path.
AvgLog(w) ==
    /\ pc[w] = "avglog"
    /\ logfile' = IF IsLogger(w)
                  THEN Append(logfile, Line("Avg epoch time", -1, <<>>, w,
                                            log_path[w].train))
                  ELSE logfile
    /\ log_path' = [log_path EXCEPT ![w].run =
                       RunLogPath(args.dataset_name, nprocs, args.model)]
    /\ pc' = [pc EXCEPT ![w] = "infer"]
    /\ UNCHANGED << args, devices, nbatch, nval, mainpc, failedAt, device, group,
                    gLoc, idxLoc, inferLoc, use_uva, fused, layers, ddp, params,
                    grad, epoch, it, b, acc, redwhat, l, todo, y, h, pred,
                    hist >>

\* ------------------------------------------------------- layerwise_infer
\* test_idx: the nodes of the test mask.
test_idx == Nodes

\* layerwise_infer, lines 238-239.
InferGraphLoc(uva, dev, loc) == IF ~uva THEN Cuda(dev) ELSE loc

\* DataLoader(g, arange(num_nodes), use_ddp=True, shuffle=False,
\* drop_last=False): rank w's share of the node ids, ceil(N / nprocs) of them,
\* the list padded by wrapping around.
NumSamples(n) == (NumNodes + n - 1) \div n
Share(w, n) == [i \in 1 .. NumSamples(n) |-> (w * NumSamples(n) + i - 1) % NumNodes]

Min(x, z) == IF x < z THEN x ELSE z
Rows(q) == { q[i] : i \in 1 .. Len(q) }

\* layerwise_infer, lines 236-240, and inference, line 88.
InferStart(w) ==
    /\ pc[w] = "infer"
    /\ inferLoc' = [inferLoc EXCEPT ![w] =
                       InferGraphLoc(use_uva[w], device[w], gLoc[w])]
    /\ h' = [h EXCEPT ![w] = 0]
    /\ l' = [l EXCEPT ![w] = 1]
    /\ hist' = Did(w, "layerwise_infer", 0)
    /\ pc' = [pc EXCEPT ![w] = "layer"]
    /\ UNCHANGED << args, devices, nbatch, nval, mainpc, failedAt, device, group,
                    gLoc, idxLoc, use_uva, fused, layers, ddp, params, grad,
                    epoch, it, b, acc, redwhat, log_path, logfile, todo, y,
                    pred >>

\* inference, lines 90-108: the loader of the layer and the shared tensor y.
LayerStart(w) ==
    /\ pc[w] = "layer"
    /\ l[w] <= Len(layers[w])
    /\ todo' = [todo EXCEPT ![w] = Share(w, nprocs)]
    /\ y' = IF Len(y) < l[w] THEN Append(y, {}) ELSE y
    /\ pc' = [pc EXCEPT ![w] = "write"]
    /\ UNCHANGED << args, devices, nbatch, nval, mainpc, failedAt, device, group,
                    gLoc, idxLoc, inferLoc, use_uva, fused, layers, ddp, params,
                    grad, epoch, it, b, acc, redwhat, log_path, logfile, l, h,
                    pred, hist >>

\* inference, lines 109-118: one batch; its output rows are written to y.
WriteBatch(w) ==
    /\ pc[w] = "write"
    /\ todo[w] # <<>>
    /\ LET k == Min(batch_size, Len(todo[w])) IN
          /\ y' = [y EXCEPT ![l[w]] = @ \cup Rows(SubSeq(todo[w], 1, k))]
          /\ todo' = [todo EXCEPT ![w] = SubSeq(@, k + 1, Len(@))]
    /\ UNCHANGED << args, devices, nbatch, nval, mainpc, pc, failedAt, device,
                    group, gLoc, idxLoc, inferLoc, use_uva, fused, layers, ddp,
                    params, grad, epoch, it, b, acc, redwhat, log_path, logfile,
                    l, h, pred, hist >>

\* inference, line 119: the loader is exhausted; dist.barrier().
EnterBarrier(w) ==
    /\ pc[w] = "write"
    /\ todo[w] = <<>>
    /\ hist' = Did(w, "barrier", l[w])
    /\ pc' = [pc EXCEPT ![w] = "wait_barrier"]
    /\ UNCHANGED << args, devices, nbatch, nval, mainpc, failedAt, device, group,
                    gLoc, idxLoc, inferLoc, use_uva, fused, layers, ddp, params,
                    grad, epoch, it, b, acc, redwhat, log_path, logfile, l,
                    todo, y, h, pred >>

\* Mutant of BarrierReady: the barrier releases a worker without waiting for
\* the others.
BarrierReadyAny == Waiting("wait_barrier") # {}

\* dist.barrier() returns once every rank of the group has entered it.
BarrierReady == Ready("wait_barrier")

Barrier ==
    /\ BarrierReady
    /\ pc' = [w \in Procs |-> IF pc[w] = "wait_barrier" THEN "install" ELSE pc[w]]
    /\ UNCHANGED << args, devices, nbatch, nval, mainpc, failedAt, device, group,
                    gLoc, idxLoc, inferLoc, use_uva, fused, layers, ddp, params,
                    grad, epoch, it, b, acc, redwhat, log_path, logfile, l,
                    todo, y, h, pred, hist >>

\* inference, line 120: y becomes the input feature "h" of the next layer.
Install(w) ==
    /\ pc[w] = "install"
    /\ h' = [h EXCEPT ![w] = l[w]]
    /\ l' = [l EXCEPT ![w] = @ + 1]
    /\ pc' = [pc EXCEPT ![w] = "layer"]
    /\ UNCHANGED << args, devices, nbatch, nval, mainpc, failedAt, device, group,
                    gLoc, idxLoc, inferLoc, use_uva, fused, layers, ddp, params,
                    grad, epoch, it, b, acc, redwhat, log_path, logfile, todo,
                    y, pred, hist >>

\* inference, lines 122-123, and layerwise_infer, lines 241-242: the last y is
\* returned and pred[nid] reads the rows of the test nodes; rows not written
\* hold no prediction.
InferReturn(w) ==
    /\ pc[w] = "layer"
    /\ l[w] > Len(layers[w])
    /\ pred' = [pred EXCEPT ![w] = test_idx \cap y[Len(layers[w])]]
    /\ pc' = [pc EXCEPT ![w] = "test"]
    /\ UNCHANGED << args, devices, nbatch, nval, mainpc, failedAt, device, group,
                    gLoc, idxLoc, inferLoc, use_uva, fused, layers, ddp, params,
                    grad, epoch, it, b, acc, redwhat, log_path, logfile, l,
                    todo, y, h, hist >>

\* layerwise_infer, lines 243-250: rank 0 appends the test accuracy.
TestLog(w) ==
    /\ pc[w] = "test"
    /\ logfile' = IF IsLogger(w)
                  THEN Append(logfile, Line("Test accuracy", -1, <<>>, w,
                                            log_path[w].run))
                  ELSE logfile
    /\ pc' = [pc EXCEPT ![w] = "destroy"]
    /\ UNCHANGED << args, devices, nbatch, nval, mainpc, failedAt, device, group,
                    gLoc, idxLoc, inferLoc, use_uva, fused, layers, ddp, params,
                    grad, epoch, it, b, acc, redwhat, log_path, l, todo, y, h,
                    pred, hist >>

\* run, line 405.
Destroy(w) ==
    /\ pc[w] = "destroy"
    /\ hist' = Did(w, "destroy_process_group", 0)
    /\ pc' = [pc EXCEPT ![w] = "done"]
    /\ UNCHANGED << args, devices, nbatch, nval, mainpc, failedAt, device, group,
                    gLoc, idxLoc, inferLoc, use_uva, fused, layers, ddp, params,
                    grad, epoch, it, b, acc, redwhat, log_path, logfile, l,
                    todo, y, h, pred >>

\* ------------------------------------------------------------------ spec
Next ==
    \/ \E i \in Procs : Spawn(i)
    \/ JoinExit
    \/ JoinError
    \/ InitProcessGroup
    \/ DDPBroadcast
    \/ AllReduce
    \/ Reduce
    \/ Barrier
    \/ \E w \in Procs : RunInit(w)
    \/ \E w \in Procs : RunUnpack(w)
    \/ \E w \in Procs : RunModelSage(w)
    \/ \E w \in Procs : RunModelGat(w)
    \/ \E w \in Procs : RunModelGatAssertFails(w)
    \/ \E w \in Procs : RunModelNone(w)
    \/ \E w \in Procs : RunDDPUnbound(w)
    \/ \E w \in Procs : RunDDP(w)
    \/ \E w \in Procs : TrainSetup(w)
    \/ \E w \in Procs : EpochStart(w)
    \/ \E w \in Procs : TrainBatch(w)
    \/ \E w \in Procs : OptStep(w)
    \/ \E w \in Procs : EvalStart(w)
    \/ \E w \in Procs : EvalBatch(w)
    \/ \E w \in Procs : EvalEmpty(w)
    \/ \E w \in Procs : EvalReduce(w)
    \/ \E w \in Procs : EpochLogUnbound(w)
    \/ \E w \in Procs : EpochLog(w)
    \/ \E w \in Procs : TrainEnd(w)
    \/ \E w \in Procs : AvgLog(w)
    \/ \E w \in Procs : InferStart(w)
    \/ \E w \in Procs : LayerStart(w)
    \/ \E w \in Procs : WriteBatch(w)
    \/ \E w \in Procs : EnterBarrier(w)
    \/ \E w \in Procs : Install(w)
    \/ \E w \in Procs : InferReturn(w)
    \/ \E w \in Procs : TestLog(w)
    \/ \E w \in Procs : Destroy(w)

Spec == Init /\ [][Next]_vars

\* ======================================================================
\* Properties
\* ======================================================================
IsPrefix(s, t) == Len(s) <= Len(t) /\ \A i \in 1 .. Len(s) : s[i] = t[i]
Passed(w, op) == \E i \in 1 .. Len(hist[w]) : hist[w][i].op = op
InTraining(w) ==
    pc[w] \in {"epoch", "batch", "wait_allreduce", "step", "eval", "wait_reduce",
               "log", "avglog"}
InInference(w) ==
    pc[w] \in {"layer", "write", "wait_barrier", "install", "test"}

\* C1 (as claimed): once every worker is in the process group there are
\* exactly n workers with the distinct ranks 0..n-1 and world size n, the
\* worker of rank r is bound to the r-th listed device, and each listed device
\* is used by exactly one worker.
C1_OneWorkerPerDevice ==
    (\A w \in Procs : Passed(w, "init_process_group")) =>
        /\ Cardinality(Procs) = Len(devices)
        /\ { group[w].rank : w \in Procs } = 0 .. Len(devices) - 1
        /\ \A w, v \in Procs : w # v => group[w].rank # group[v].rank
        /\ \A w \in Procs : group[w].world_size = Len(devices)
        /\ \A w \in Procs : device[w] = devices[group[w].rank + 1]
        /\ \A i \in 1 .. Len(devices) :
              Cardinality({ w \in Procs : device[w] = devices[i] }) = 1

\* ---------------------------------------------------------------------
NumLayers == IF args.model = "sage" THEN 3 ELSE Len(args.head)

EpochEvents(w, e) ==
    [i \in 1 .. nbatch[w] |-> Ev("backward", e)]
    \o << Ev("evaluate", e), Ev("reduce", e) >>

RECURSIVE TrainEvents(_, _)
TrainEvents(w, e) ==
    IF e <= 0 THEN <<>> ELSE TrainEvents(w, e - 1) \o EpochEvents(w, e - 1)

ExpectedHist(w) ==
    << Ev("init_process_group", 0), Ev("broadcast", 0), Ev("train", 0) >>
    \o TrainEvents(w, args.num_epochs)
    \o << Ev("reduce_time", args.num_epochs), Ev("layerwise_infer", 0) >>
    \o [i \in 1 .. NumLayers |-> Ev("barrier", i)]
    \o << Ev("destroy_process_group", 0) >>

\* C2: the operations every worker has executed so far are a prefix of
\* init_process_group, (DDP broadcast,) train, then for each epoch
\* 0..num_epochs-1 in increasing order its training batches, its validation
\* pass and its reduce, then the final reduce, layerwise_infer with one
\* barrier per layer, and destroy_process_group last.
C2_PhaseOrder == \A w \in Procs : IsPrefix(hist[w], ExpectedHist(w))

C2_Witness ==
    /\ nprocs = 2
    /\ args.num_epochs = 2
    /\ \A w \in Procs : nbatch[w] = 1 /\ pc[w] = "done"

\* ---------------------------------------------------------------------
\* C3: replicas that have completed the same number of optimizer steps hold
\* identical parameters (from the wrap on), every applied update is the
\* gradient combined over all nprocs workers, and a worker about to step
\* holds the combined gradient.
C3_ReplicasInSync ==
    /\ \A w, v \in Procs :
          (ddp[w] /\ ddp[v] /\ Len(params[w]) = Len(params[v]))
             => params[w] = params[v]
    /\ \A w \in Procs : \A i \in 2 .. Len(params[w]) : params[w][i].step = Procs
    /\ \A w \in Procs : pc[w] = "step" => grad[w] = Procs

C3_Witness ==
    /\ nprocs = 2
    /\ \A w \in Procs : Len(params[w]) = 3 /\ pc[w] = "batch"

\* ---------------------------------------------------------------------
\* C4: use_uva iff mode is 'mixed'; in training the graph is on the worker's
\* GPU iff mode is 'puregpu', 'mixed' keeps it on the CPU and 'benchmark'
\* leaves graph and indices on the CPU where they were loaded; in inference
\* the graph is on the worker's GPU iff mode is not 'mixed'; the sampler is
\* fused iff mode is not 'benchmark'.
C4_ModePlacement ==
    \A w \in Procs :
       /\ (InTraining(w) \/ InInference(w)) =>
             /\ use_uva[w] <=> (args.mode = "mixed")
             /\ fused[w] <=> (args.mode # "benchmark")
       /\ InTraining(w) =>
             /\ (gLoc[w] = Cuda(device[w])) <=> (args.mode = "puregpu")
             /\ args.mode = "mixed" => gLoc[w] = CPU
             /\ args.mode = "benchmark" => (gLoc[w] = CPU /\ idxLoc[w] = CPU)
             /\ args.mode # "benchmark" => idxLoc[w] = Cuda(device[w])
       /\ InInference(w) =>
             (inferLoc[w] = Cuda(device[w])) <=> (args.mode # "mixed")

C4_Witness ==
    /\ args.mode = "benchmark"
    /\ devices = << 1, 0 >>
    /\ pc[0] = "write"
    /\ pc[1] = "wait_barrier"

\* ---------------------------------------------------------------------
FinishedLayer(v, k) ==
    \/ pc[v] \in {"test", "destroy", "done"}
    \/ l[v] > k
    \/ (l[v] = k /\ pc[v] \in {"wait_barrier", "install"})

\* C5: whenever a worker has layer k's shared output installed as "h", or has
\* returned from inference, every worker has finished writing its rows of
\* that layer and every node's row is written; pred[nid] reads written rows.
C5_BarrierPerLayer ==
    \A w \in Procs :
       /\ (InInference(w) /\ h[w] >= 1) =>
             /\ \A v \in Procs : FinishedLayer(v, h[w])
             /\ y[h[w]] = Nodes
       /\ pc[w] \in {"test", "destroy", "done"} =>
             /\ \A v \in Procs : FinishedLayer(v, Len(layers[w]))
             /\ y[Len(layers[w])] = Nodes
             /\ pred[w] = test_idx

C5_Witness ==
    /\ nprocs = 2
    /\ h[0] = 1
    /\ pc[0] = "write"
    /\ pc[1] = "install"
    /\ l[1] = 1

\* ---------------------------------------------------------------------
\* C6: the accuracy of every Epoch line is the sum, over all nprocs ranks, of
\* the accuracy that rank measured in the line's epoch divided by nprocs: the
\* unweighted mean of the per-worker accuracies of that epoch.
C6_ReportedIsMean ==
    \A i \in 1 .. Len(logfile) :
       logfile[i].kind = "Epoch" =>
          logfile[i].acc =
             [r \in 1 .. nprocs |->
                 [proc |-> r - 1, epoch |-> logfile[i].epoch, div |-> nprocs]]

C6_Witness ==
    /\ nprocs = 2
    /\ Len(logfile) >= 2
    /\ logfile[2].kind = "Epoch"
    /\ logfile[2].epoch = 1

\* ---------------------------------------------------------------------
LogShape == [i \in 1 .. Len(logfile) |-> << logfile[i].kind, logfile[i].epoch >>]

ExpectedLog ==
    [i \in 1 .. args.num_epochs |-> << "Epoch", i - 1 >>]
    \o << << "Avg epoch time", -1 >>, << "Test accuracy", -1 >> >>

\* C7: every line of the log is appended by proc_id 0; the lines so far are a
\* prefix of num_epochs Epoch lines numbered 0..num_epochs-1, one Avg epoch
\* time line and one Test accuracy line, and are exactly these once rank 0 has
\* left layerwise_infer; all lines go to one path, and the path run builds
\* equals the path train builds.
C7_LogLines ==
    /\ \A i \in 1 .. Len(logfile) : logfile[i].by = 0
    /\ IsPrefix(LogShape, ExpectedLog)
    /\ (0 \in Procs /\ pc[0] \in {"destroy", "done"}) => LogShape = ExpectedLog
    /\ \A i, j \in 1 .. Len(logfile) : logfile[i].path = logfile[j].path
    /\ \A i \in 1 .. Len(logfile) : logfile[i].path # <<>>
    /\ \A w \in Procs :
          log_path[w].run # <<>> => log_path[w].run = log_path[w].train

C7_Witness ==
    /\ nprocs = 2
    /\ args.num_epochs = 2
    /\ \A w \in Procs : pc[w] = "done"
    /\ Len(logfile) = 4

\* ---------------------------------------------------------------------
BeforeWrap(w) ==
    pc[w] \in {"unstarted", "run", "wait_init", "unpack", "model", "ddp",
               "failed", "terminated"}

\* C8: with --model gat and a head list not ending in 1 no worker gets a
\* model, none takes a training step, and a worker that raises does so in
\* GAT.__init__; a GAT that is built has a head list ending in 1, layer i's
\* input width is hid_size * n_heads[i-1], the flattened output width of layer
\* i-1, and the last layer's output averaged over its heads has width
\* out_size.
C8_GatHeads ==
    args.model = "gat" =>
       \A w \in Procs :
          /\ args.head[Len(args.head)] # 1 =>
                /\ layers[w] = <<>>
                /\ BeforeWrap(w)
                /\ pc[w] # "ddp"
                /\ ~Passed(w, "backward")
                /\ Len(params[w]) <= 1
                /\ pc[w] = "failed" => failedAt[w] = "GAT.__init__"
          /\ layers[w] # <<>> =>
                /\ args.head[Len(args.head)] = 1
                /\ Len(layers[w]) = Len(args.head)
                /\ \A i \in 2 .. Len(layers[w]) :
                      /\ layers[w][i].in_dim = args.hidden_dim * args.head[i - 1]
                      /\ layers[w][i].in_dim = GATForwardWidth(layers[w], i - 2)
                /\ GATForwardWidth(layers[w], Len(layers[w]) - 1) = num_classes

C8_Witness ==
    /\ args.model = "gat"
    /\ args.head = << 0 >>
    /\ nprocs = 2
    /\ \A w \in Procs : pc[w] = "failed" /\ failedAt[w] = "GAT.__init__"

\* ---------------------------------------------------------------------
\* C9: 'sage' builds SAGE and 'gat' builds GAT; for any other --model no
\* worker gets a model or a DDP wrapper, a worker that raises does so at the
\* DistributedDataParallel call after init_process_group, and no training
\* iteration, validation, inference or log write happens.
C9_ModelByName ==
    \A w \in Procs :
       /\ (args.model = "sage" /\ layers[w] # <<>>) =>
             (Len(layers[w]) = 3
              /\ \A i \in 1 .. 3 : layers[w][i].conv = "SAGEConv")
       /\ (args.model = "gat" /\ layers[w] # <<>>) =>
             \A i \in 1 .. Len(layers[w]) : layers[w][i].conv = "GATConv"
       /\ args.model \notin {"sage", "gat"} =>
             /\ layers[w] = <<>>
             /\ ~ddp[w]
             /\ BeforeWrap(w)
             /\ IsPrefix(hist[w], << Ev("init_process_group", 0) >>)
             /\ logfile = <<>>
             /\ y = <<>>
             /\ pc[w] = "failed" =>
                   (failedAt[w] = "DistributedDataParallel"
                    /\ Passed(w, "init_process_group"))

C9_Witness ==
    /\ args.model = "graphsage"
    /\ nprocs = 2
    /\ \A w \in Procs : pc[w] = "failed" /\ failedAt[w] = "DistributedDataParallel"

\* ---------------------------------------------------------------------
IsExplicit(e) == e.op \in {"reduce", "reduce_time", "barrier"}
IsCollective(e) == e.op \in {"broadcast", "backward", "reduce", "reduce_time", "barrier"}

\* The collectives train and inference call by name, the same for every rank.
ExpectedExplicit ==
    [i \in 1 .. args.num_epochs |-> Ev("reduce", i - 1)]
    \o << Ev("reduce_time", args.num_epochs) >>
    \o [i \in 1 .. NumLayers |-> Ev("barrier", i)]

EqualBatches == \A w, v \in Procs : nbatch[w] = nbatch[v]
SomeFailed == \E w \in Procs : pc[w] = "failed"
AllDone == \A w \in Procs : pc[w] = "done"

CollectivesAgree ==
    /\ \A w \in Procs : IsPrefix(SelectSeq(hist[w], IsExplicit), ExpectedExplicit)
    /\ \A w \in Procs :
          pc[w] \in {"destroy", "done"} =>
             SelectSeq(hist[w], IsExplicit) = ExpectedExplicit
    /\ EqualBatches =>
          \A w, v \in Procs :
             \/ IsPrefix(SelectSeq(hist[w], IsCollective), SelectSeq(hist[v], IsCollective))
             \/ IsPrefix(SelectSeq(hist[v], IsCollective), SelectSeq(hist[w], IsCollective))

\* Runs under the scheduler's fairness: an enabled step is eventually taken.
\* The mode and the device ids do not steer the control flow and are fixed;
\* loaders with uneven batch counts are included.
InitFair ==
    /\ args \in ParsedArgs({"mixed"})
    /\ devices \in { [i \in 1 .. n |-> i - 1] : n \in 1 .. MaxGpus }
    /\ nbatch \in BatchProfiles(Len(devices)) \cup UnevenProfiles(Len(devices))
    /\ nval \in 0 .. MaxBatches
    /\ InitRun

FairSpec == InitFair /\ [][Next]_vars /\ WF_vars(Next)

\* C10: every rank issues the same named collectives, one reduce per epoch,
\* one after the last epoch and one barrier per layer; with equal batch counts
\* the ranks' full collective sequences agree, and unless a worker fails every
\* worker eventually reaches destroy_process_group and returns.
C10_CollectivesTerminate ==
    /\ []CollectivesAgree
    /\ (EqualBatches => <>(SomeFailed \/ AllDone))

C10_Witness ==
    /\ nprocs = 2
    /\ args.num_epochs = 2
    /\ EqualBatches
    /\ nbatch[0] = 1
    /\ AllDone
    /\ mainpc = "exit"

====
